---- MODULE Spec2Model ----
(***************************************************************************)
(* Model of corpy's native line reader (rust/src/lib.rs): the Vertical     *)
(* line source and the five extern "C" entry points init_logger,           *)
(* string_free, vertical_new, vertical_free and vertical_next_line.        *)
(*                                                                         *)
(* A file is a sequence of bytes.  Pointers are small integers, NULL is 0. *)
(* The heap is two maps: the live Vertical boxes and the live CString      *)
(* buffers.  A panic inside an entry point ends the process: the state     *)
(* with outcome = "panic" has no successor.                                *)
(***************************************************************************)
EXTENDS Integers, Sequences, FiniteSets, TLC

\* ------------------------------------------------------------------ bounds
MaxLines == 2        \* lines written to the test file
MaxLive == 3         \* heap allocations (Vertical boxes, CString buffers) live at once
MaxCalls == MaxLines + 2   \* vertical_next_line calls followed per handle

\* --------------------------------------------------------------- constants
NULL == 0            \* ptr::null(), ptr::null_mut()
NUL == 0             \* the byte CString::new rejects and appends
LF == 10             \* the byte lines() splits on
CR == 13             \* the byte lines() strips before a LF
BAD == 255           \* a byte that occurs in no valid UTF-8 text

\* Line contents the host writes to the test file: "", "a", a line with
\* U+0000 inside, a line that is not valid UTF-8.
LineSet == { <<>>, <<97>>, <<97, NUL, 98>>, <<BAD>> }

\* The newline conventions a text file is written with: LF and CRLF.
Newlines == { <<LF>>, <<CR, LF>> }

SeqsUpTo(S, n) == UNION { [1..k -> S] : k \in 0..n }

\* The bytes of a file made of the given lines, each followed by the
\* newline nl, the last one only if `terminated`.
RECURSIVE WriteLines(_, _, _)
WriteLines(ls, nl, terminated) ==
    IF ls = <<>> THEN <<>>
    ELSE IF Len(ls) = 1
         THEN Head(ls) \o (IF terminated THEN nl ELSE <<>>)
         ELSE Head(ls) \o nl \o WriteLines(Tail(ls), nl, terminated)

\* ------------------------------------------------------------- file system
TestPath == "test.txt"
Paths == { TestPath, "missing", "denied" }

\* The path argument of vertical_new: a C string pointer that may be null,
\* and whose bytes may fail to decode as UTF-8.
PathArg(null, utf8, name) == [null |-> null, utf8 |-> utf8, name |-> name]
PathArgs == { PathArg(FALSE, TRUE, p) : p \in Paths }
            \cup { PathArg(TRUE, TRUE, ""), PathArg(FALSE, FALSE, "") }

VARIABLES
    srcLines,   \* the lines that were written to TestPath
    file,       \* the bytes of the file at TestPath
    handles,    \* heap: live Vertical boxes, pointer -> [path, pos]
    strings,    \* heap: live CString buffers, pointer -> bytes with terminator
    heldH,      \* handles the host received and has not passed to vertical_free
    heldS,      \* strings the host received and has not passed to string_free
    hist,       \* per live handle, the results of its vertical_next_line calls
    loggerSet,  \* a global logger is installed
    op,         \* the last entry point called
    ptr,        \* its pointer argument (NULL when it has none)
    path,       \* its path argument (vertical_new)
    ret,        \* the pointer it returned (NULL when it returns nothing)
    emitted,    \* the log records it passed to the log macros, in order
    outcome     \* "ok": it returned; "panic": it panicked

vars == << srcLines, file, handles, strings, heldH, heldS, hist, loggerSet,
           op, ptr, path, ret, emitted, outcome >>

HandleAddrs == 1..MaxLive
StringAddrs == 1..MaxLive

\* Mutant of Fresh: the allocator may hand out an address that is live.
Fresh_Any(addrs, live) == addrs

\* The allocator hands out any address that is not live; a freed address
\* may be handed out again.
Fresh(addrs, live) == addrs \ live

\* The heap has room for one more allocation.
HeapHasRoom == Cardinality(DOMAIN handles) + Cardinality(DOMAIN strings) < MaxLive

NoPath == PathArg(TRUE, TRUE, "")

Record(level, text, detail) == [level |-> level, text |-> text, detail |-> detail]

\* ------------------------------------------------------------- Line Source
Ok(line) == [tag |-> "Ok", line |-> line, msg |-> ""]
Err(msg) == [tag |-> "Err", line |-> <<>>, msg |-> msg]
None == [tag |-> "None", line |-> <<>>, msg |-> ""]

\* File::open
File_open(name) ==
    CASE name = "missing" -> Err("No such file or directory (os error 2)")
      [] name = "denied" -> Err("Permission denied (os error 13)")
      [] OTHER -> Ok(<<>>)

\* Mutant of Vertical_new: a failed open is swallowed and an empty reader
\* is returned.
Vertical_new_Swallow(name) ==
    [res |-> Ok(<<>>), vertical |-> [path |-> name, pos |-> 0]]

\* Vertical::new: the result and, on success, the new Vertical.
Vertical_new(name) ==
    LET r == File_open(name)
    IN  IF r.tag = "Ok"
        THEN [res |-> r, vertical |-> [path |-> name, pos |-> 0]]
        ELSE [res |-> Err(r.msg), vertical |-> [path |-> name, pos |-> 0]]

\* The bytes behind a path that opens.
Content(name) == IF name = TestPath THEN file ELSE <<>>

\* read_until(b'\n'): index of the last byte taken, from position pos.
ReadUntilLF(bytes, pos) ==
    IF \E i \in (pos + 1)..Len(bytes) : bytes[i] = LF
    THEN CHOOSE i \in (pos + 1)..Len(bytes) :
            bytes[i] = LF /\ \A j \in (pos + 1)..(i - 1) : bytes[j] # LF
    ELSE Len(bytes)

ValidUtf8(bytes) == \A i \in 1..Len(bytes) : bytes[i] # BAD

\* Mutant of StripNewline: only the LF is stripped.
StripNewline_KeepCR(buf) ==
    IF Len(buf) > 0 /\ buf[Len(buf)] = LF
    THEN SubSeq(buf, 1, Len(buf) - 1)
    ELSE buf

\* Lines::next strips one trailing LF and then one trailing CR.
StripNewline(buf) ==
    IF Len(buf) > 0 /\ buf[Len(buf)] = LF
    THEN LET b == SubSeq(buf, 1, Len(buf) - 1)
         IN  IF Len(b) > 0 /\ b[Len(b)] = CR
             THEN SubSeq(b, 1, Len(b) - 1)
             ELSE b
    ELSE buf

\* Mutant of Lines_next: at the end of input the reader rewinds to the
\* start of the file.
Lines_next_Rewind(v) ==
    LET bytes == Content(v.path)
        end == ReadUntilLF(bytes, v.pos)
        buf == SubSeq(bytes, v.pos + 1, end)
    IN  IF Len(buf) = 0 THEN [item |-> None, pos |-> 0]
        ELSE IF ~ValidUtf8(buf)
             THEN [item |-> Err("stream did not contain valid UTF-8"),
                   pos |-> end]
             ELSE [item |-> Ok(StripNewline(buf)), pos |-> end]

\* self.lines.next(): the item and the position after it.  The bytes of a
\* line are consumed before they are validated, so a line that is not
\* UTF-8 yields an error and the reader stands behind it.
Lines_next(v) ==
    LET bytes == Content(v.path)
        end == ReadUntilLF(bytes, v.pos)
        buf == SubSeq(bytes, v.pos + 1, end)
    IN  IF Len(buf) = 0 THEN [item |-> None, pos |-> v.pos]
        ELSE IF ~ValidUtf8(buf)
             THEN [item |-> Err("stream did not contain valid UTF-8"),
                   pos |-> end]
             ELSE [item |-> Ok(StripNewline(buf)), pos |-> end]

\* Vertical::next_line
Vertical_next_line(v) ==
    LET n == Lines_next(v)
    IN  CASE n.item.tag = "Ok" -> [item |-> Ok(n.item.line), pos |-> n.pos]
          [] n.item.tag = "Err" -> [item |-> Err(n.item.msg), pos |-> n.pos]
          [] OTHER -> [item |-> None, pos |-> n.pos]

\* --------------------------------------------------------- Boundary Adapter
\* CString::new(line): fails on an interior NUL, else appends the terminator.
CString_new(line) ==
    IF \E i \in 1..Len(line) : line[i] = NUL
    THEN Err("nul byte found in provided data")
    ELSE Ok(line \o <<NUL>>)

\* What the host reads from a C string buffer: the bytes before the first NUL.
CStrText(buf) ==
    LET n == CHOOSE i \in 1..Len(buf) :
                 buf[i] = NUL /\ \A j \in 1..(i - 1) : buf[j] # NUL
    IN  SubSeq(buf, 1, n - 1)

ReadErrorText == "Error in native code while reading next Vertical line"

\* Mutant of AdaptItem: an empty line is answered with null.
AdaptItem_EmptyIsNull(item) ==
    CASE item.tag = "Ok" /\ item.line = <<>> ->
            [kind |-> "null", buf |-> <<>>, log |-> <<>>]
      [] item.tag = "Ok" /\ item.line # <<>> ->
            LET c == CString_new(item.line)
                log == << Record("debug", "Allocating string", item.line) >>
            IN  IF c.tag = "Ok"
                THEN [kind |-> "string", buf |-> c.line, log |-> log]
                ELSE [kind |-> "panic", buf |-> <<>>, log |-> log]
      [] item.tag = "Err" ->
            [kind |-> "null", buf |-> <<>>,
             log |-> << Record("error", ReadErrorText, item.msg) >>]
      [] OTHER -> [kind |-> "null", buf |-> <<>>, log |-> <<>>]

\* Mutant of AdaptItem: a read error is answered with a buffer that holds
\* an error text.
AdaptItem_ErrAsString(item) ==
    CASE item.tag = "Ok" ->
            LET c == CString_new(item.line)
                log == << Record("debug", "Allocating string", item.line) >>
            IN  IF c.tag = "Ok"
                THEN [kind |-> "string", buf |-> c.line, log |-> log]
                ELSE [kind |-> "panic", buf |-> <<>>, log |-> log]
      [] item.tag = "Err" ->
            [kind |-> "string", buf |-> <<101, NUL>>,
             log |-> << Record("error", ReadErrorText, item.msg) >>]
      [] OTHER -> [kind |-> "null", buf |-> <<>>, log |-> <<>>]

\* The match of vertical_next_line on the Line Source's item: what is
\* logged, and whether a buffer is handed out ("string"), null is returned
\* ("null") or unwrap() panics on the CString::new error ("panic").
AdaptItem(item) ==
    CASE item.tag = "Ok" ->
            LET c == CString_new(item.line)
                log == << Record("debug", "Allocating string", item.line) >>
            IN  IF c.tag = "Ok"
                THEN [kind |-> "string", buf |-> c.line, log |-> log]
                ELSE [kind |-> "panic", buf |-> <<>>, log |-> log]
      [] item.tag = "Err" ->
            [kind |-> "null", buf |-> <<>>,
             log |-> << Record("error", ReadErrorText, item.msg) >>]
      [] OTHER -> [kind |-> "null", buf |-> <<>>, log |-> <<>>]

\* One entry of hist: the Line Source's item and what the host received.
Returned(item, text) == [item |-> item, null |-> FALSE, text |-> text]
ReturnedNull(item) == [item |-> item, null |-> TRUE, text |-> <<>>]

Alive == outcome = "ok"

Init ==
    /\ srcLines \in SeqsUpTo(LineSet, MaxLines)
    /\ \E nl \in Newlines, terminated \in BOOLEAN :
          /\ (~terminated) => (srcLines # <<>> /\ srcLines[Len(srcLines)] # <<>>)
          /\ file = WriteLines(srcLines, nl, terminated)
    /\ handles = << >>
    /\ strings = << >>
    /\ heldH = {}
    /\ heldS = {}
    /\ hist = << >>
    /\ loggerSet = FALSE
    /\ op = "none"
    /\ ptr = NULL
    /\ path = NoPath
    /\ ret = NULL
    /\ emitted = <<>>
    /\ outcome = "ok"

Called(o, p, pa) == op' = o /\ ptr' = p /\ path' = pa

\* env_logger::init().  With a global logger already installed the call
\* fails: from env_logger 0.5 on, init() is try_init().expect(..) and
\* panics; before 0.5 it returns the error, which the caller drops.  The
\* crate version is the build's choice.
env_logger_init ==
    IF loggerSet
    THEN outcome' \in {"panic", "ok"} /\ loggerSet' = loggerSet
    ELSE outcome' = "ok" /\ loggerSet' = TRUE

init_logger ==
    /\ Alive
    /\ Called("init_logger", NULL, NoPath)
    /\ env_logger_init
    /\ ret' = NULL
    /\ emitted' = <<>>
    /\ UNCHANGED << srcLines, file, handles, strings, heldH, heldS, hist >>

Remove(f, k) == [x \in DOMAIN f \ {k} |-> f[x]]

\* Mutant of is_null: the null check is missing.
is_null_Never(p) == FALSE

\* string.is_null(), ptr.is_null() at the head of the two free functions.
is_null(p) == p = NULL

\* Mutant of DropCString: the buffer is never released.
DropCString_Leak(s) == strings' = strings

\* CString::from_raw(string) dropped at once: the buffer is released.
DropCString(s) == strings' = Remove(strings, s)

string_free(s) ==
    /\ Alive
    /\ s \in DOMAIN strings \cup {NULL}
    /\ Called("string_free", s, NoPath)
    /\ ret' = NULL
    /\ outcome' = "ok"
    /\ IF is_null(s)
       THEN /\ emitted' = <<>>
            /\ UNCHANGED << strings, heldS >>
       ELSE /\ emitted' = << Record("debug", "Deallocating string", "") >>
            /\ DropCString(s)
            /\ heldS' = heldS \ {s}
    /\ UNCHANGED << srcLines, file, handles, heldH, hist, loggerSet >>

\* Mutant of BoxVertical: every handle points at one shared Vertical, which
\* each open replaces.
BoxVertical_Shared(h, v) == handles' = [x \in DOMAIN handles \cup {h} |-> v]

\* Box::into_raw(Box::new(vertical)): a fresh address holds the Vertical.
BoxVertical(h, v) == handles' = handles @@ (h :> v)

\* Mutant of PathAccepted: a path that is not UTF-8 is decoded lossily.
PathAccepted_Lossy(pa) == ~pa.null

\* assert!(!path.is_null()) and path.to_str().unwrap(): the path is taken
\* only if it is non-null and decodes as UTF-8; otherwise the call panics.
PathAccepted(pa) == ~pa.null /\ pa.utf8

vertical_new(pa) ==
    /\ Alive
    /\ pa \in PathArgs
    /\ Called("vertical_new", NULL, pa)
    /\ IF ~PathAccepted(pa)
       THEN \* assert!(!path.is_null()), path.to_str().unwrap()
            /\ outcome' = "panic"
            /\ ret' = NULL
            /\ emitted' = <<>>
            /\ UNCHANGED << handles, heldH, hist >>
       ELSE LET r == Vertical_new(pa.name)
            IN  IF r.res.tag = "Ok"
                THEN /\ HeapHasRoom
                     /\ \E h \in Fresh(HandleAddrs, DOMAIN handles) :
                           /\ BoxVertical(h, r.vertical)
                           /\ hist' = hist @@ (h :> <<>>)
                           /\ heldH' = heldH \cup {h}
                           /\ ret' = h
                     /\ emitted' = << Record("debug", "Allocating Vertical", pa.name) >>
                     /\ outcome' = "ok"
                ELSE /\ emitted' = << Record("error",
                                        "Error in native code while opening",
                                        r.res.msg) >>
                     /\ ret' = NULL
                     /\ outcome' = "ok"
                     /\ UNCHANGED << handles, heldH, hist >>
    /\ UNCHANGED << srcLines, file, strings, heldS, loggerSet >>

\* Mutant of DropVertical: the Vertical is never released.
DropVertical_Leak(h) == handles' = handles

\* Box::from_raw(ptr) dropped at once: the Vertical is released.
DropVertical(h) == handles' = Remove(handles, h)

vertical_free(h) ==
    /\ Alive
    /\ h \in DOMAIN handles \cup {NULL}
    /\ Called("vertical_free", h, NoPath)
    /\ ret' = NULL
    /\ outcome' = "ok"
    /\ IF is_null(h)
       THEN /\ emitted' = <<>>
            /\ UNCHANGED << handles, heldH, hist >>
       ELSE /\ emitted' = << Record("debug", "Deallocating Vertical", "") >>
            /\ DropVertical(h)
            /\ hist' = Remove(hist, h)
            /\ heldH' = heldH \ {h}
    /\ UNCHANGED << srcLines, file, strings, heldS, loggerSet >>

\* Mutant of IntoRaw: every string handed out shares one buffer, which
\* each call overwrites.
IntoRaw_SharedBuffer(s, buf) == strings' = [x \in DOMAIN strings \cup {s} |-> buf]

\* CString::new(line).unwrap().into_raw(): a fresh address holds the buffer.
IntoRaw(s, buf) == strings' = strings @@ (s :> buf)

vertical_next_line(h) ==
    /\ Alive
    /\ h \in DOMAIN handles \cup {NULL}
    /\ Called("vertical_next_line", h, NoPath)
    /\ IF h = NULL
       THEN \* assert!(!ptr.is_null())
            /\ outcome' = "panic"
            /\ ret' = NULL
            /\ emitted' = <<>>
            /\ UNCHANGED << handles, strings, heldS, hist >>
       ELSE LET n == Vertical_next_line(handles[h])
                a == AdaptItem(n.item)
            IN  /\ Len(hist[h]) < MaxCalls
                /\ handles' = [handles EXCEPT ![h].pos = n.pos]
                /\ emitted' = a.log
                /\ CASE a.kind = "string" ->
                          /\ HeapHasRoom
                          /\ \E s \in Fresh(StringAddrs, DOMAIN strings) :
                                /\ IntoRaw(s, a.buf)
                                /\ heldS' = heldS \cup {s}
                                /\ ret' = s
                          /\ hist' = [hist EXCEPT
                                        ![h] = Append(@, Returned(n.item, CStrText(a.buf)))]
                          /\ outcome' = "ok"
                     [] a.kind = "null" ->
                          /\ ret' = NULL
                          /\ hist' = [hist EXCEPT ![h] = Append(@, ReturnedNull(n.item))]
                          /\ outcome' = "ok"
                          /\ UNCHANGED << strings, heldS >>
                     [] OTHER ->
                          /\ ret' = NULL
                          /\ outcome' = "panic"
                          /\ UNCHANGED << strings, heldS, hist >>
    /\ UNCHANGED << srcLines, file, heldH, loggerSet >>

Next ==
    \/ init_logger
    \/ \E s \in StringAddrs \cup {NULL} : string_free(s)
    \/ \E pa \in PathArgs : vertical_new(pa)
    \/ \E h \in HandleAddrs \cup {NULL} : vertical_free(h)
    \/ \E h \in HandleAddrs \cup {NULL} : vertical_next_line(h)

Spec == Init /\ [][Next]_vars

TypeOK ==
    /\ DOMAIN handles \subseteq HandleAddrs
    /\ DOMAIN strings \subseteq StringAddrs
    /\ DOMAIN hist = DOMAIN handles
    /\ outcome \in {"ok", "panic"}

\* ------------------------------------------------------------------ claims
\* The last call was vertical_next_line on a live handle.
ReadCall == op = "vertical_next_line" /\ ptr # NULL

\* The entry the last vertical_next_line call added to its handle's hist.
LastEntry == hist[ptr][Len(hist[ptr])]

ReadReturned == ReadCall /\ outcome = "ok" /\ ptr \in DOMAIN hist /\ hist[ptr] # <<>>

Unopenable == { "missing", "denied" }

\* The file is text: every line decodes as UTF-8.
TextFile == \A k \in 1..Len(srcLines) : ValidUtf8(srcLines[k])

\* C1: for every text file of N lines, whatever characters the lines
\* contain, call k <= N on a handle returns a string equal to line k and
\* call N+1 returns null.
C1_EveryLineComesBack ==
    TextFile =>
        /\ ReadCall => outcome = "ok"
        /\ \A h \in DOMAIN hist : \A k \in 1..Len(hist[h]) :
              /\ k <= Len(srcLines) =>
                    (~hist[h][k].null /\ hist[h][k].text = srcLines[k])
              /\ k = Len(srcLines) + 1 => hist[h][k].null

\* C2: a boundary call whose arguments meet the documented preconditions
\* returns normally, whatever the file holds: it never panics.  (A repeated
\* init_logger is C10's case and is left out here.)
C2_NoPanicAtTheBoundary ==
    ( /\ op # "init_logger"
      /\ op = "vertical_new" => (~path.null /\ path.utf8)
      /\ op = "vertical_next_line" => ptr # NULL )
    => outcome = "ok"

\* C3: once a handle has returned null, for exhaustion or for a read
\* error, every later call on it returns null.
C3_NullIsFinal ==
    \A h \in DOMAIN hist : \A i, j \in 1..Len(hist[h]) :
        (i < j /\ hist[h][i].null) => hist[h][j].null

\* The Line Source behind handle h has reported the end of input.
Exhausted(h) == \E i \in 1..Len(hist[h]) : hist[h][i].item.tag = "None"

\* C4: after a handle has returned null for exhaustion, every further
\* vertical_next_line on it returns null, allocates no string and leaves
\* the handle live.
C4_IdempotentExhaustion ==
    [][ \A h \in DOMAIN handles :
            (Exhausted(h) /\ op' = "vertical_next_line" /\ ptr' = h) =>
                /\ outcome' = "ok"
                /\ ret' = NULL
                /\ strings' = strings
                /\ h \in DOMAIN handles' ]_vars

C4_Witness ==
    /\ ReadReturned
    /\ ret = NULL
    /\ \E i, j \in 1..Len(hist[ptr]) :
          /\ i < j
          /\ j = Len(hist[ptr])
          /\ hist[ptr][i].item.tag = "None"
          /\ hist[ptr][j].item.tag = "None"

\* C5: an empty line of the file comes back as a non-null string of length
\* zero; null is returned only for exhaustion or a read error.
C5_EmptyLineIsNotNull ==
    /\ \A h \in DOMAIN hist : \A k \in 1..Len(hist[h]) :
          /\ (k <= Len(srcLines) /\ srcLines[k] = <<>>) =>
                (~hist[h][k].null /\ hist[h][k].text = <<>>)
          /\ hist[h][k].null => hist[h][k].item.tag \in {"None", "Err"}
    /\ (ReadReturned /\ Len(hist[ptr]) <= Len(srcLines)
          /\ srcLines[Len(hist[ptr])] = <<>>) =>
          (ret # NULL /\ ret \in DOMAIN strings /\ strings[ret] = <<NUL>>)

C5_Witness ==
    /\ ReadReturned
    /\ Len(hist[ptr]) = 2
    /\ Len(srcLines) = 2
    /\ srcLines[2] = <<>>
    /\ ret # NULL
    /\ strings[ret] = <<NUL>>

\* C6: vertical_new on a path that cannot be opened returns null, emits
\* one error-level record and nothing else, and leaves the live handles
\* and the live strings as they were.
C6_FailedOpenAllocatesNothing ==
    [][ (op' = "vertical_new" /\ ~path'.null /\ path'.utf8
            /\ path'.name \in Unopenable) =>
            /\ outcome' = "ok"
            /\ ret' = NULL
            /\ Len(emitted') = 1
            /\ emitted'[1].level = "error"
            /\ handles' = handles
            /\ strings' = strings ]_vars

C6_Witness ==
    /\ op = "vertical_new"
    /\ path.name = "missing"
    /\ outcome = "ok"
    /\ ret = NULL
    /\ DOMAIN handles # {}
    /\ DOMAIN strings # {}

\* C7: while the host frees each handle and each string it received once,
\* every free is accepted and the live allocations are those the host
\* still owes a free: when it owes none, none is live.
C7_NoLeakNoFault ==
    /\ DOMAIN handles = heldH
    /\ DOMAIN strings = heldS
    /\ op \in {"string_free", "vertical_free"} => outcome = "ok"
    /\ (heldH = {} /\ heldS = {}) =>
          Cardinality(DOMAIN handles) + Cardinality(DOMAIN strings) = 0

\* A string freed after its handle was closed, and nothing is left.
C7_Witness ==
    /\ op = "string_free"
    /\ ptr # NULL
    /\ outcome = "ok"
    /\ heldH = {}
    /\ heldS = {}
    /\ handles = << >>
    /\ strings = << >>

\* C8: a live string stays live with the same bytes through every call
\* but string_free on it; a live handle stays live through every call
\* but vertical_free on it.
C8_OnlyTheMatchingFreeReleases ==
    [][ /\ \A s \in DOMAIN strings :
              \/ s \in DOMAIN strings' /\ strings'[s] = strings[s]
              \/ op' = "string_free" /\ ptr' = s
        /\ \A h \in DOMAIN handles :
              \/ h \in DOMAIN handles'
              \/ op' = "vertical_free" /\ ptr' = h ]_vars

\* Two strings outlive the handle that produced them.
C8_Witness ==
    /\ op = "vertical_free"
    /\ ptr # NULL
    /\ handles = << >>
    /\ Cardinality(DOMAIN strings) = 2

\* C9: a read error makes vertical_next_line emit one error-level record
\* with the error's text and return null, the value it returns on
\* exhaustion; a failed open returns the same null whatever its cause.
C9_FailuresCrossAsNull ==
    /\ ReadReturned =>
          /\ LastEntry.item.tag = "Err" =>
                /\ ret = NULL
                /\ emitted = << Record("error", ReadErrorText, LastEntry.item.msg) >>
          /\ LastEntry.item.tag = "None" => ret = NULL
    /\ (op = "vertical_new" /\ outcome = "ok" /\ path.name \in Unopenable) =>
          ret = NULL

C9_Witness ==
    /\ ReadReturned
    /\ LastEntry.item.tag = "Err"
    /\ ret = NULL
    /\ Len(emitted) = 1

\* C10: a second or later init_logger call returns normally.
C10_InitLoggerReturns == op = "init_logger" => outcome = "ok"

\* C11: string_free(null) and vertical_free(null) return normally, emit no
\* log record and leave every handle, every read position and every
\* string as they were.
C11_FreeOfNullIsNoOp ==
    [][ (op' \in {"string_free", "vertical_free"} /\ ptr' = NULL) =>
            /\ outcome' = "ok"
            /\ emitted' = <<>>
            /\ handles' = handles
            /\ strings' = strings ]_vars

C11_Witness ==
    /\ op \in {"string_free", "vertical_free"}
    /\ ptr = NULL
    /\ outcome = "ok"
    /\ emitted = <<>>
    /\ \E h \in DOMAIN handles : handles[h].pos > 0
    /\ DOMAIN strings # {}

\* The last call broke a precondition: vertical_next_line on a null
\* handle, vertical_new on a null path or on a path that is not text.
BrokePrecondition ==
    \/ op = "vertical_next_line" /\ ptr = NULL
    \/ op = "vertical_new" /\ (path.null \/ ~path.utf8)

C13_OpenLogsOnce ==
    (op = "vertical_new" /\ outcome = "ok") =>
        /\ Len(emitted) = 1
        /\ (emitted[1].level = "debug") <=> (ret # NULL)
        /\ (emitted[1].level = "error") <=> (ret = NULL)
        /\ (ret # NULL) <=> (path.name \notin Unopenable)
        /\ ret # NULL => ret \in DOMAIN handles

\* The same path opened a second time.
C13_Witness ==
    /\ op = "vertical_new"
    /\ outcome = "ok"
    /\ ret # NULL
    /\ emitted = << Record("debug", "Allocating Vertical", TestPath) >>
    /\ Cardinality(DOMAIN handles) = 2

\* C14: vertical_next_line on a live handle has exactly three outcomes: a
\* line, returned as a non-null string with one debug record; exhaustion,
\* null with no record; a read error, null with one error record.
C14_ThreeOutcomes ==
    ReadCall =>
        /\ outcome = "ok"
        /\ ptr \in DOMAIN hist /\ hist[ptr] # <<>>
        /\ LastEntry.item.tag = "Ok" =>
              /\ ret # NULL
              /\ Len(emitted) = 1
              /\ emitted[1].level = "debug"
        /\ LastEntry.item.tag = "None" => (ret = NULL /\ emitted = <<>>)
        /\ LastEntry.item.tag = "Err" =>
              /\ ret = NULL
              /\ Len(emitted) = 1
              /\ emitted[1].level = "error"

\* C15: a successful vertical_new returns a handle that was not live, with
\* its own reader at the start of the file, and leaves every other handle
\* alone; vertical_next_line and vertical_free leave every handle but
\* their own live and at its position.
C15_HandlesAreIndependent ==
    [][ /\ (op' = "vertical_new" /\ ret' # NULL) =>
              /\ ret' \notin DOMAIN handles
              /\ ret' \in DOMAIN handles'
              /\ handles'[ret'].pos = 0
              /\ \A h \in DOMAIN handles :
                    h \in DOMAIN handles' /\ handles'[h] = handles[h]
        /\ op' \in {"vertical_next_line", "vertical_free"} =>
              \A h \in DOMAIN handles \ {ptr'} :
                    /\ h \in DOMAIN handles' /\ handles'[h] = handles[h]
                    /\ hist'[h] = hist[h] ]_vars

\* Two handles on the same file stand at different lines.
C15_Witness ==
    /\ ReadReturned
    /\ \E h \in DOMAIN handles :
          /\ h # ptr
          /\ handles[h].path = handles[ptr].path
          /\ handles[h].pos > 0
          /\ handles[h].pos # handles[ptr].pos

\* C16: a non-null string returned by vertical_next_line is at an address
\* that held no live string, and every string live before is still live
\* with its bytes; a call that returns null allocates no string.
C16_StringsAreFresh ==
    [][ op' = "vertical_next_line" =>
            /\ ret' # NULL =>
                  /\ ret' \notin DOMAIN strings
                  /\ DOMAIN strings' = DOMAIN strings \cup {ret'}
                  /\ \A s \in DOMAIN strings : strings'[s] = strings[s]
            /\ ret' = NULL => strings' = strings ]_vars

\* A second string handed out while the first is live.
C16_Witness ==
    /\ ReadReturned
    /\ ret # NULL
    /\ Cardinality(DOMAIN strings) = 2
    /\ \E s \in DOMAIN strings : s # ret /\ strings[s] # strings[ret]

\* C17: the set of live handles changes only by a successful vertical_new,
\* which adds the handle it returns, and by vertical_free on a non-null
\* handle, which removes it; vertical_next_line returning null leaves its
\* handle live; string_free changes no handle and no read position.
C17_OnlyOpenAndCloseChangeHandles ==
    [][ /\ (op' = "vertical_new" /\ ret' # NULL) =>
              (ret' \notin DOMAIN handles
                 /\ DOMAIN handles' = DOMAIN handles \cup {ret'})
        /\ (op' = "vertical_free" /\ ptr' # NULL) =>
              (ptr' \in DOMAIN handles
                 /\ DOMAIN handles' = DOMAIN handles \ {ptr'})
        /\ ~(op' = "vertical_new" /\ ret' # NULL)
              /\ ~(op' = "vertical_free" /\ ptr' # NULL) =>
              DOMAIN handles' = DOMAIN handles
        /\ (op' = "vertical_next_line" /\ ptr' # NULL /\ ret' = NULL) =>
              ptr' \in DOMAIN handles'
        /\ op' = "string_free" => handles' = handles ]_vars

\* A handle that returned null for exhaustion is live, and so is a string
\* it handed out before.
C17_Witness ==
    /\ ReadReturned
    /\ ret = NULL
    /\ LastEntry.item.tag = "None"
    /\ ptr \in DOMAIN handles
    /\ heldH = {ptr}
    /\ DOMAIN strings # {}

\* The item the Line Source owes for call k on a handle of the test file.
ItemOwed(k) ==
    IF k > Len(srcLines) THEN None
    ELSE IF ValidUtf8(srcLines[k]) THEN Ok(srcLines[k])
    ELSE Err("stream did not contain valid UTF-8")

\* C18: on every handle, call k consumes item k of the line source, and
\* the strings returned before the first null are the first lines of the
\* file, in order.
C18_CollectedIsAPrefix ==
    \A h \in DOMAIN hist : \A k \in 1..Len(hist[h]) :
        /\ hist[h][k].item = ItemOwed(k)
        /\ (\A j \in 1..k : ~hist[h][j].null) =>
              (k <= Len(srcLines) /\ hist[h][k].text = srcLines[k])

\* A line was collected, then a line that does not decode ended the loop.
C18_Witness ==
    /\ ReadReturned
    /\ Len(hist[ptr]) = 2
    /\ ~hist[ptr][1].null
    /\ hist[ptr][1].text = <<97>>
    /\ hist[ptr][2].null
    /\ hist[ptr][2].item.tag = "Err"
====
